---- MODULE Spec2Model ----
(***************************************************************************)
(* The FlashForge protocol client: api/socket_handler.py                   *)
(* (send_and_receive, send_file) and api/protocol.py (upload_file).        *)
(*                                                                         *)
(* One behaviour is one invocation of one operation against one device.    *)
(* Every blocking socket call (connect, sendall, recv) is one step; the    *)
(* device and the network choose its outcome.  The `finally' clause runs   *)
(* in the step that returns or raises.                                     *)
(***************************************************************************)
EXTENDS Integers, Sequences, FiniteSets, TLC

(***************************************************************************)
(* Bounds of the model.                                                    *)
(***************************************************************************)
\* Bytes in one upload chunk.  The source sets 4096; every formula below is
\* stated in terms of CHUNK_SIZE, and no step depends on the particular value.
ChunkBytes == 2
\* Most bytes one recv() returns.  The source sets 1024.
RecvBytes == 2
\* Longest upload payload.
MaxFileLen == 5
\* Longest reply to the target command that the device sends.
MaxResponse == 4

BUFFER_SIZE == RecvBytes
CHUNK_SIZE == ChunkBytes

\* protocol.py: len(filename) > 36
MaxFilenameLen == 36

(***************************************************************************)
(* Inputs.                                                                 *)
(***************************************************************************)
\* Bytes the device may send.
DeviceBytes == {"o", "k", "\r", "\n", "x"}
\* Bytes of an uploaded file.
FileBytes == {0, 1}

SeqsUpTo(S, n) == UNION {[1..k -> S] : k \in 0..n}

\* What one recv() can return when data arrives: 1..BUFFER_SIZE bytes.
Chunks == SeqsUpTo(DeviceBytes, BUFFER_SIZE) \ {<<>>}

Commands == {"M115", "M27"}

Name36 == "abcdefghijklmnopqrstuvwxyz012345.gx3"
Name37 == "abcdefghijklmnopqrstuvwxyz0123456.gx3"
Filenames == {"a.gx", Name36, Name37}

FileContents == SeqsUpTo(FileBytes, MaxFileLen)

(***************************************************************************)
(* Bytes and text.                                                         *)
(***************************************************************************)
\* Python's `pat in hay' on bytes.
Contains(hay, pat) ==
    \E i \in 1..(Len(hay) - Len(pat) + 1) : SubSeq(hay, i, i + Len(pat) - 1) = pat

OK == <<"o", "k">>
OK_CRLF == <<"o", "k", "\r", "\n">>
OK_LF == <<"o", "k", "\n">>

Min(a, b) == IF a < b THEN a ELSE b

\* file_content[a:b]
Slice(s, a, b) == SubSeq(s, a + 1, b)

Zeros(n) == [i \in 1..n |-> 0]

(***************************************************************************)
(* zlib.crc32: the reflected CRC-32 (polynomial 0xEDB88320), table driven. *)
(* A 32-bit word is its four bytes, most significant first.                *)
(***************************************************************************)
RECURSIVE BitXor(_, _)
BitXor(a, b) ==
    IF a = 0 THEN b
    ELSE IF b = 0 THEN a
    ELSE ((a + b) % 2) + 2 * BitXor(a \div 2, b \div 2)

WordXor(v, w) == [i \in 1..4 |-> BitXor(v[i], w[i])]

\* w >> 1
WordShr1(w) ==
    <<w[1] \div 2,
      (w[1] % 2) * 128 + w[2] \div 2,
      (w[2] % 2) * 128 + w[3] \div 2,
      (w[3] % 2) * 128 + w[4] \div 2>>

\* w >> 8
WordShr8(w) == <<0, w[1], w[2], w[3]>>

\* 0xEDB88320
CrcPoly == <<237, 184, 131, 32>>
\* 0xFFFFFFFF
Mask32 == <<255, 255, 255, 255>>

RECURSIVE CrcTableEntry(_, _)
CrcTableEntry(c, k) ==
    IF k = 0 THEN c
    ELSE CrcTableEntry(IF c[4] % 2 = 1 THEN WordXor(CrcPoly, WordShr1(c)) ELSE WordShr1(c),
                       k - 1)

crc_table == [n \in 0..255 |-> CrcTableEntry(<<0, 0, 0, n>>, 8)]

RECURSIVE CrcUpdate(_, _)
CrcUpdate(c, data) ==
    IF data = <<>> THEN c
    ELSE CrcUpdate(WordXor(crc_table[BitXor(c[4], Head(data))], WordShr8(c)), Tail(data))

\* zlib.crc32(data) & 0xffffffff
crc32(data) == WordXor(CrcUpdate(Mask32, data), Mask32)

(***************************************************************************)
(* struct.pack('>BBBBIII', ...): four bytes, then three big-endian uint32. *)
(***************************************************************************)
BE32(n) == <<(n \div 16777216) % 256, (n \div 65536) % 256, (n \div 256) % 256, n % 256>>

MAGIC == <<90, 90, 165, 165>>

pack(counter, length, crc) == MAGIC \o BE32(counter) \o BE32(length) \o crc

(***************************************************************************)
(* State.                                                                  *)
(***************************************************************************)
VARIABLES
    pc,           \* the statement the operation is at
    op,           \* "none", "send_and_receive" or "upload_file"
    command,      \* send_and_receive's argument
    filename,     \* upload_file's arguments
    file_content,
    sock,         \* printer_socket: "none", "open", "connected", "closed"
    timeout,      \* printer_socket.settimeout(...)
    peer,         \* "open", or "closed" once recv() has returned b''
    response,     \* the local `response'
    counter,      \* send_file's packet sequence number
    offset,       \* send_file's position in file_content
    outcome,      \* "running", "returned" or "raised"
    result,       \* the value returned
    exc,          \* the exception raised
    wire,         \* history: the sendall() calls that succeeded, in order, with a
                  \* "recv" mark wherever one or more recv() calls came between
    oks,          \* history: the waits in which b'ok' was seen
    connects,     \* history: number of connect() calls
    fn,           \* the protocol.py function under way, "" for a bare send_and_receive
    axis_arg,     \* home_printer's argument
    parsed,       \* the dictionary a protocol.py function builds
    threads,      \* two operations under way at once: the frame (locals) of each
    sockets,      \* the socket objects created so far
    devices,      \* the printers: what each will answer
    printer,      \* one printer seen from its side: its two replies, how many sent
    inflight,     \* the bytes it has sent that no recv() has returned yet
    origin        \* history: the reply each byte of the command's response came in

vars == <<pc, op, command, filename, file_content, sock, timeout, peer, response,
          counter, offset, outcome, result, exc, wire, oks, connects, fn, axis_arg,
          parsed, threads, sockets, devices, printer, inflight, origin>>

\* protocol.py's own state: untouched by the steps of socket_handler.py.
protoVars == <<fn, axis_arg, parsed>>

\* The state of two operations run at once: untouched by one run alone.
concVars == <<threads, sockets, devices>>

\* The printer's side of one connection: untouched where its bytes are anonymous.
streamVars == <<printer, inflight, origin>>

NoExc == [type |-> "", cause |-> ""]
TimeoutError == [type |-> "socket.timeout", cause |-> ""]
ConnectionError == [type |-> "ConnectionError", cause |-> ""]
ValueError == [type |-> "ValueError", cause |-> ""]
SocketErrors == {TimeoutError, ConnectionError}

SentLine(t) == [kind |-> "sendall", text |-> t, bytes |-> <<>>]
SentPacket(b) == [kind |-> "sendall", text |-> "", bytes |-> b]
Recvd == [kind |-> "recv", text |-> "", bytes |-> <<>>]
LogRecv(w) == IF w # <<>> /\ w[Len(w)] = Recvd THEN w ELSE Append(w, Recvd)

Init ==
    /\ pc = "idle"
    /\ op = "none"
    /\ command = ""
    /\ filename = ""
    /\ file_content = <<>>
    /\ sock = "none"
    /\ timeout = 0
    /\ peer = "open"
    /\ response = <<>>
    /\ counter = 0
    /\ offset = 0
    /\ outcome = "running"
    /\ result = <<>>
    /\ exc = NoExc
    /\ wire = <<>>
    /\ oks = {}
    /\ connects = 0
    /\ fn = ""
    /\ axis_arg = <<>>
    /\ parsed = <<>>
    /\ threads = <<>>
    /\ sockets = <<>>
    /\ devices = <<>>
    /\ printer = <<>>
    /\ inflight = <<>>
    /\ origin = <<>>

(***************************************************************************)
(* Pieces shared by send_and_receive and send_file.                        *)
(***************************************************************************)
init_command == "~M601 S1\r\n"

\* printer_socket.close()
close(s) == "closed"

\* send_file's `except Exception as e: raise Exception(f'Upload failed: {str(e)}')'
wrap(e) == [type |-> "Exception", cause |-> e.type]

\* What leaves the operation when a socket call raises e.
raised(e) == IF op = "upload_file" THEN wrap(e) ELSE e

\* Raise without the `finally' clause.
Raise_without_finally(e) ==
    /\ outcome' = "raised"
    /\ exc' = raised(e)
    /\ pc' = "done"
    /\ UNCHANGED <<result, sock>>

\* A failed call is retried on a fresh socket.
Raise_and_retry(e) ==
    /\ pc' = "connect"
    /\ sock' = "open"
    /\ UNCHANGED <<outcome, result, exc>>

\* `except socket.timeout: break' around the socket calls.
Raise_unless_timeout(e) ==
    IF e.type = "socket.timeout"
      THEN /\ outcome' = "returned"
           /\ result' = response
           /\ sock' = close(sock)
           /\ pc' = "done"
           /\ UNCHANGED exc
      ELSE /\ outcome' = "raised"
           /\ exc' = raised(e)
           /\ sock' = close(sock)
           /\ pc' = "done"
           /\ UNCHANGED result

\* A socket call raises e: the exception leaves through `finally'.
Raise(e) ==
    /\ outcome' = "raised"
    /\ exc' = raised(e)
    /\ sock' = close(sock)
    /\ pc' = "done"
    /\ UNCHANGED result

\* `return v' through `finally'.
Return(v) ==
    /\ outcome' = "returned"
    /\ result' = v
    /\ sock' = close(sock)
    /\ pc' = "done"
    /\ UNCHANGED exc

\* The operation goes on to its next statement.
Goto(next) ==
    /\ pc' = next
    /\ UNCHANGED <<outcome, result, exc, sock>>

\* `response += chunk' in a loop `while b'ok' not in response'.  The reply is
\* discarded after the loop and only tested for b'ok', so the model keeps its
\* last Len(OK) - 1 bytes once the test has been made on all of it.
Tail1(r) == IF Len(r) < Len(OK) THEN r ELSE SubSeq(r, Len(r) - Len(OK) + 2, Len(r))

\* printer_socket.connect(...)
connect ==
    /\ pc = "connect"
    /\ connects' = connects + 1
    /\ \/ /\ sock' = "connected"
          /\ pc' = "send_init"
          /\ UNCHANGED <<outcome, result, exc>>
       \/ \E e \in SocketErrors : Raise(e)
    /\ UNCHANGED protoVars
    /\ UNCHANGED concVars
    /\ UNCHANGED streamVars
    /\ UNCHANGED <<op, command, filename, file_content, timeout, peer, response, counter,
                   offset, wire, oks>>

\* printer_socket.sendall(line.encode()); response = b''
SendLine(at, line, next) ==
    /\ pc = at
    /\ \/ /\ wire' = Append(wire, SentLine(line))
          /\ response' = <<>>
          /\ Goto(next)
       \/ /\ \E e \in SocketErrors : Raise(e)
          /\ UNCHANGED <<wire, response>>
    /\ UNCHANGED protoVars
    /\ UNCHANGED concVars
    /\ UNCHANGED streamVars
    /\ UNCHANGED <<op, command, filename, file_content, timeout, peer, counter, offset,
                   oks, connects>>

\* One pass of
\*     while b'ok' not in response:
\*         chunk = printer_socket.recv(BUFFER_SIZE)
\*         if not chunk: break
\*         response += chunk
\* and, when the loop ends, the step Exit to what follows it.
WaitOk(at, Exit) ==
    /\ pc = at
    /\ wire' = LogRecv(wire)
    /\ \/ \E chunk \in Chunks :
            /\ peer = "open"
            /\ response' = Tail1(response \o chunk)
            /\ IF Contains(response \o chunk, OK)
                 THEN Exit /\ oks' = oks \cup {at}
                 ELSE Goto(at) /\ oks' = oks
            /\ UNCHANGED peer
       \/ /\ peer' = "closed"
          /\ Exit
          /\ UNCHANGED <<response, oks>>
       \/ /\ \E e \in SocketErrors : (e = TimeoutError => peer = "open") /\ Raise(e)
          /\ UNCHANGED <<response, oks, peer>>
    /\ UNCHANGED protoVars
    /\ UNCHANGED concVars
    /\ UNCHANGED streamVars
    /\ UNCHANGED <<op, command, filename, file_content, timeout, counter, offset, connects>>

(***************************************************************************)
(* send_and_receive(printer_address, command)                              *)
(***************************************************************************)
send_and_receive_call ==
    /\ pc = "idle"
    /\ \E c \in Commands : command' = c
    /\ op' = "send_and_receive"
    /\ sock' = "open"
    /\ timeout' = 10
    /\ pc' = "connect"
    /\ UNCHANGED protoVars
    /\ UNCHANGED concVars
    /\ UNCHANGED streamVars
    /\ UNCHANGED <<filename, file_content, peer, response, counter, offset, outcome,
                   result, exc, wire, oks, connects>>

formatted_command(c) == "~" \o c \o "\r\n"

\* response.decode('utf-8', errors='ignore')
decode(r) == r

send_init == SendLine("send_init", init_command, "wait_init")

wait_init ==
    /\ op = "send_and_receive"
    /\ WaitOk("wait_init", Goto("send_command"))

send_command == SendLine("send_command", formatted_command(command), "wait_command")

has_terminator_crlf_only(r) == Contains(r, OK_CRLF)

\* b'ok\r\n' in response or b'ok\n' in response
has_terminator(r) == Contains(r, OK_CRLF) \/ Contains(r, OK_LF)

\* One pass of
\*     while True:
\*         chunk = printer_socket.recv(BUFFER_SIZE)
\*         if not chunk: break
\*         response += chunk
\*         if b'ok\r\n' in response or b'ok\n' in response: break
\* and, when the loop ends, `return response.decode(...)'.
wait_command ==
    /\ pc = "wait_command"
    /\ wire' = LogRecv(wire)
    /\ \/ \E chunk \in Chunks :
            /\ peer = "open"
            /\ Len(response) + Len(chunk) <= MaxResponse
            /\ response' = response \o chunk
            /\ IF has_terminator(response')
                 THEN Return(decode(response'))
                 ELSE Goto("wait_command")
            /\ UNCHANGED peer
       \/ /\ peer' = "closed"
          /\ Return(decode(response))
          /\ UNCHANGED response
       \/ /\ \E e \in SocketErrors : (e = TimeoutError => peer = "open") /\ Raise(e)
          /\ UNCHANGED <<response, peer>>
    /\ UNCHANGED protoVars
    /\ UNCHANGED concVars
    /\ UNCHANGED streamVars
    /\ UNCHANGED <<op, command, filename, file_content, timeout, counter, offset, oks,
                   connects>>

(***************************************************************************)
(* home_printer(printer_address, axis='all')                               *)
(* Text that the code takes apart is a sequence of one-character strings.  *)
(***************************************************************************)
\* str.upper(), on the letters the model uses.
upper_char(c) ==
    CASE c = "a" -> "A" [] c = "l" -> "L" [] c = "x" -> "X" [] c = "z" -> "Z"
      [] OTHER -> c

upper(t) == [i \in 1..Len(t) |-> upper_char(t[i])]

\* The characters of t as one string.
RECURSIVE Str(_)
Str(t) == IF t = <<>> THEN "" ELSE Head(t) \o Str(Tail(t))

\* The call home_printer(printer_address): axis takes its default.
NoArg == <<"<default>">>

\* axis='all'
axis_of(a) == IF a = NoArg THEN <<"a", "l", "l">> ELSE a

home_command_case_sensitive(axis) ==
    IF axis = <<"a", "l", "l">> THEN "G28" ELSE "G28 " \o Str(upper(axis))

\* if axis.upper() == 'ALL': command = 'G28' else: command = f'G28 {axis.upper()}'
home_command(axis) ==
    IF upper(axis) = <<"A", "L", "L">> THEN "G28" ELSE "G28 " \o Str(upper(axis))

AxisArgs == {NoArg, <<"a", "l", "l">>, <<"A", "L", "L">>, <<"a", "L", "l">>,
             <<"x">>, <<"X">>, <<"z">>}

\* home_printer up to its call of send_and_receive(printer_address, command)
home_printer_call ==
    /\ pc = "idle"
    /\ \E a \in AxisArgs :
          /\ axis_arg' = a
          /\ command' = home_command(axis_of(a))
    /\ fn' = "home_printer"
    /\ op' = "send_and_receive"
    /\ sock' = "open"
    /\ timeout' = 10
    /\ pc' = "connect"
    /\ UNCHANGED <<filename, file_content, peer, response, counter, offset, outcome,
                   result, exc, wire, oks, connects, parsed>>
    /\ UNCHANGED concVars
    /\ UNCHANGED streamVars

(***************************************************************************)
(* upload_file(printer_address, filename, file_content) and send_file      *)
(***************************************************************************)
filename_too_long_ge(f) == Len(f) >= MaxFilenameLen

\* len(filename) > 36
filename_too_long(f) == Len(f) > MaxFilenameLen

upload_file_call ==
    /\ pc = "idle"
    /\ \E f \in Filenames, c \in FileContents :
          /\ filename' = f
          /\ file_content' = c
          /\ IF filename_too_long(f)
               THEN /\ outcome' = "raised"
                    /\ exc' = ValueError
                    /\ pc' = "done"
                    /\ UNCHANGED <<sock, timeout>>
               ELSE /\ sock' = "open"
                    /\ timeout' = 30
                    /\ pc' = "connect"
                    /\ UNCHANGED <<outcome, exc>>
    /\ op' = "upload_file"
    /\ fn' = "upload_file"
    /\ UNCHANGED <<command, peer, response, counter, offset, result, wire, oks, connects,
                   axis_arg, parsed>>
    /\ UNCHANGED concVars
    /\ UNCHANGED streamVars

m650_cmd == "~M650\r\n"
m28_cmd_padded_size(size, name) ==
    "~M28 " \o ToString(((size + CHUNK_SIZE - 1) \div CHUNK_SIZE) * CHUNK_SIZE)
            \o " 0:/user/" \o name \o "\r\n"

m28_cmd(size, name) == "~M28 " \o ToString(size) \o " 0:/user/" \o name \o "\r\n"
m29_cmd == "~M29\r\n"

file_size == Len(file_content)

upload_wait_init ==
    /\ op = "upload_file"
    /\ WaitOk("wait_init", Goto("send_m650"))

send_m650 == SendLine("send_m650", m650_cmd, "wait_m650")

wait_m650 == WaitOk("wait_m650", Goto("send_m28"))

\* sendall(m28_cmd); response = b''
send_m28 == SendLine("send_m28", m28_cmd(file_size, filename), "wait_m28")

\* the wait after M28, then `counter = 0; offset = 0'
wait_m28 == WaitOk("wait_m28", Goto("stream"))

\* One pass of `while offset < file_size'.
chunk_end == Min(offset + CHUNK_SIZE, file_size)
actual_data == Slice(file_content, offset, chunk_end)
crc_after_padding == crc32(actual_data \o Zeros(CHUNK_SIZE - Len(actual_data)))
crc == crc32(actual_data)
data_chunk_padded_in_front == Zeros(CHUNK_SIZE - Len(actual_data)) \o actual_data
data_chunk_padded_with_ff == actual_data \o [i \in 1..(CHUNK_SIZE - Len(actual_data)) |-> 255]
data_chunk == actual_data \o Zeros(CHUNK_SIZE - Len(actual_data))
header_counting_from_one == pack(counter + 1, CHUNK_SIZE, crc)
header_with_real_length == pack(counter, Len(actual_data), crc)
header == pack(counter, CHUNK_SIZE, crc)
packet == header \o data_chunk

send_packet ==
    /\ pc = "stream"
    /\ offset < file_size
    /\ \/ /\ wire' = Append(wire, SentPacket(packet))
          /\ offset' = chunk_end
          /\ counter' = counter + 1
          /\ Goto("stream")
       \/ /\ \E e \in SocketErrors : Raise(e)
          /\ UNCHANGED <<wire, offset, counter>>
    /\ UNCHANGED protoVars
    /\ UNCHANGED concVars
    /\ UNCHANGED streamVars
    /\ UNCHANGED <<op, command, filename, file_content, timeout, peer, response, oks,
                   connects>>

\* The loop is over: sendall(m29_cmd); response = b''
send_m29 ==
    /\ offset >= file_size
    /\ SendLine("stream", m29_cmd, "wait_m29")

upload_summary(name) == "File " \o name \o " uploaded successfully"

wait_m29 == WaitOk("wait_m29", Return(upload_summary(filename)))

Next ==
    \/ send_and_receive_call
    \/ home_printer_call
    \/ upload_file_call
    \/ connect
    \/ send_init
    \/ wait_init
    \/ send_command
    \/ wait_command
    \/ upload_wait_init
    \/ send_m650
    \/ wait_m650
    \/ send_m28
    \/ wait_m28
    \/ send_packet
    \/ send_m29
    \/ wait_m29

Spec == Init /\ [][Next]_vars

\* A command operation on its own, the blocking calls always returning: every
\* connect, sendall and recv ends (with data, closure, a timeout or an error),
\* so the operation keeps taking steps while it has one to take.
CmdNext ==
    \/ send_and_receive_call
    \/ connect
    \/ send_init
    \/ wait_init
    \/ send_command
    \/ wait_command

CmdFairSpec == Init /\ [][CmdNext]_vars /\ WF_vars(CmdNext)

(***************************************************************************)
(* The parsers of protocol.py: get_temp, get_info, get_progress.  Each is  *)
(* applied to the text that send_and_receive returned.                     *)
(***************************************************************************)
MinOf(S) == CHOOSE x \in S : \A y \in S : x <= y

Digits == {"0", "1", "2", "3", "4", "5", "6", "7", "8", "9"}
\* [0-9.]
NumChars == Digits \cup {"."}

\* A character class with `+': the index of the last character of the longest
\* run of characters of the class that starts at i; i - 1 when there is none.
RECURSIVE RunEnd(_, _, _)
RunEnd(t, i, class) ==
    IF i <= Len(t) /\ t[i] \in class THEN RunEnd(t, i + 1, class) ELSE i - 1

\* The literal lit at i.
StartsAt(t, i, lit) ==
    /\ i >= 1
    /\ i + Len(lit) - 1 <= Len(t)
    /\ SubSeq(t, i, i + Len(lit) - 1) = lit

\* (-?[0-9.]+) at i: the index of its last character, 0 when it does not match.
signed_number_end(t, i) ==
    LET j == IF i <= Len(t) /\ t[i] = "-" THEN i + 1 ELSE i
        e == RunEnd(t, j, NumChars)
    IN  IF e >= j THEN e ELSE 0

\* label(-?[0-9.]+) at i: group 1, <<>> when it does not match.
match_current(t, i, label) ==
    LET a == i + Len(label) IN
    IF StartsAt(t, i, label) /\ signed_number_end(t, a) # 0
      THEN SubSeq(t, a, signed_number_end(t, a))
      ELSE <<>>

\* label[0-9.]+ /(-?[0-9.]+) at i: group 1, <<>> when it does not match.  The
\* first number is followed by a space, which [0-9.] excludes, so only its
\* longest run can match.
match_target(t, i, label) ==
    LET a == i + Len(label)
        e == RunEnd(t, a, NumChars)
    IN  IF /\ StartsAt(t, i, label)
           /\ e >= a
           /\ StartsAt(t, e + 1, <<" ", "/">>)
           /\ signed_number_end(t, e + 3) # 0
          THEN SubSeq(t, e + 3, signed_number_end(t, e + 3))
          ELSE <<>>

\* re.search(r'<label>(-?[0-9.]+)', response): the leftmost match
search_current(t, label) ==
    LET hits == {i \in 1..Len(t) : match_current(t, i, label) # <<>>} IN
    IF hits = {} THEN <<>> ELSE match_current(t, MinOf(hits), label)

\* re.search(r'<label>[0-9.]+ /(-?[0-9.]+)', response)
search_target(t, label) ==
    LET hits == {i \in 1..Len(t) : match_target(t, i, label) # <<>>} IN
    IF hits = {} THEN <<>> ELSE match_target(t, MinOf(hits), label)

T0 == <<"T", "0", ":">>
B == <<"B", ":">>

\* get_temp: the four searches, each field set only `if ..._match'
temp_info(t) ==
    LET m == [current_temperature |-> search_current(t, T0),
              target_temperature |-> search_target(t, T0),
              bed_current_temperature |-> search_current(t, B),
              bed_target_temperature |-> search_target(t, B)]
    IN  [k \in {x \in DOMAIN m : m[x] # <<>>} |-> m[k]]

\* str.split(sep), sep one character
RECURSIVE split(_, _)
split(t, sep) ==
    LET hits == {i \in 1..Len(t) : t[i] = sep} IN
    IF hits = {} THEN <<t>>
    ELSE <<SubSeq(t, 1, MinOf(hits) - 1)>> \o split(SubSeq(t, MinOf(hits) + 1, Len(t)), sep)

\* str.split(sep, 1)
split_once(t, sep) ==
    LET hits == {i \in 1..Len(t) : t[i] = sep} IN
    IF hits = {} THEN <<t>>
    ELSE <<SubSeq(t, 1, MinOf(hits) - 1), SubSeq(t, MinOf(hits) + 1, Len(t))>>

Whitespace == {" ", "\t", "\r", "\n"}

\* str.strip()
RECURSIVE strip(_)
strip(t) ==
    IF t # <<>> /\ t[1] \in Whitespace THEN strip(Tail(t))
    ELSE IF t # <<>> /\ t[Len(t)] \in Whitespace THEN strip(SubSeq(t, 1, Len(t) - 1))
    ELSE t

\* info[k] = v
Put(d, k, v) == [x \in DOMAIN d \cup {k} |-> IF x = k THEN v ELSE d[x]]

EmptyDict == [x \in {} |-> <<>>]

\* ':' in line and 'CMD' not in line and 'ok' not in line
info_line_qualifies(line) ==
    /\ Contains(line, <<":">>)
    /\ ~Contains(line, <<"C", "M", "D">>)
    /\ ~Contains(line, OK)

\* get_info's loop over the lines, from line i on
RECURSIVE info_from(_, _, _)
info_from(lines, i, info) ==
    IF i > Len(lines) THEN info
    ELSE LET key_value == split_once(strip(lines[i]), ":") IN
         info_from(lines, i + 1,
                   IF info_line_qualifies(lines[i]) /\ Len(key_value) = 2
                     THEN Put(info, strip(key_value[1]), strip(key_value[2]))
                     ELSE info)

get_info_fields(t) == info_from(split(t, "\n"), 1, EmptyDict)

\* ([0-9]+)/([0-9]+) at i: <<group 1, group 2>>, <<>> when it does not match
match_progress(t, i) ==
    LET e == RunEnd(t, i, Digits)
        f == RunEnd(t, e + 2, Digits)
    IN  IF e >= i /\ StartsAt(t, e + 1, <<"/">>) /\ f >= e + 2
          THEN <<SubSeq(t, i, e), SubSeq(t, e + 2, f)>>
          ELSE <<>>

\* re.search(r'([0-9]+)/([0-9]+)', response)
search_progress(t) ==
    LET hits == {i \in 1..Len(t) : match_progress(t, i) # <<>>} IN
    IF hits = {} THEN <<>> ELSE match_progress(t, MinOf(hits))

DigitValue(c) ==
    CASE c = "0" -> 0 [] c = "1" -> 1 [] c = "2" -> 2 [] c = "3" -> 3 [] c = "4" -> 4
      [] c = "5" -> 5 [] c = "6" -> 6 [] c = "7" -> 7 [] c = "8" -> 8 [] c = "9" -> 9

\* int(digits)
RECURSIVE int(_)
int(t) == IF t = <<>> THEN 0 ELSE 10 * int(SubSeq(t, 1, Len(t) - 1)) + DigitValue(t[Len(t)])

\* round((current / total) * 100, 2), in hundredths, rounding the exact quotient
\* half to even; total # 0.
percentage(current, total) ==
    LET n == current * 10000
        q == n \div total
        r == n % total
    IN  IF 2 * r > total \/ (2 * r = total /\ q % 2 = 1) THEN q + 1 ELSE q

total_is_not_negative(total) == total >= 0

\* if total > 0:
total_is_positive(total) == total > 0

ZeroDivisionError == [type |-> "ZeroDivisionError", cause |-> ""]

\* The protocol.py function returns its dictionary.
ReturnDict(d) ==
    /\ parsed' = d
    /\ result' = d
    /\ outcome' = "returned"
    /\ pc' = "done"
    /\ UNCHANGED exc

ParserUnchanged ==
    UNCHANGED <<op, command, filename, file_content, sock, timeout, peer, response, counter,
                offset, wire, oks, connects, fn, axis_arg, threads, sockets, devices,
                printer, inflight, origin>>

get_temp ==
    /\ pc = "parse"
    /\ fn = "get_temp"
    /\ ReturnDict(temp_info(response))
    /\ ParserUnchanged

get_info ==
    /\ pc = "parse"
    /\ fn = "get_info"
    /\ ReturnDict(get_info_fields(response))
    /\ ParserUnchanged

get_progress ==
    /\ pc = "parse"
    /\ fn = "get_progress"
    /\ LET progress_match == search_progress(response) IN
       IF progress_match = <<>>
         THEN ReturnDict(EmptyDict)
         ELSE LET current == int(progress_match[1])
                  total == int(progress_match[2])
              IN  IF total_is_positive(total)
                    THEN IF total = 0
                           THEN /\ outcome' = "raised"
                                /\ exc' = ZeroDivisionError
                                /\ pc' = "done"
                                /\ UNCHANGED <<parsed, result>>
                           ELSE ReturnDict([current_byte |-> current, total_bytes |-> total,
                                            percentage |-> percentage(current, total)])
                    ELSE ReturnDict([current_byte |-> current, total_bytes |-> total])
    /\ ParserUnchanged

\* Numbers of a temperature reply: plain, negative, decimal.
TempNumbers == {<<"5">>, <<"-", "5">>, <<"2", ".", "5">>}
\* Between the current and the target temperature: as the comment in get_temp
\* writes the reply, and as regex_patterns.py quotes the device.
TempSeparators == {<<"/">>, <<" ", "/">>}

TempGroup(label, c, sep, t) == label \o c \o sep \o t

TempResponses ==
    {TempGroup(T0, c, sep, t) \o <<" ">> \o TempGroup(B, bc, sep, bt) \o <<"\r", "\n">> :
        c \in TempNumbers, t \in TempNumbers, bc \in TempNumbers, bt \in TempNumbers,
        sep \in TempSeparators}
    \cup {TempGroup(T0, c, sep, t) \o <<"\r", "\n">> :
             c \in TempNumbers, t \in TempNumbers, sep \in TempSeparators}
    \cup {TempGroup(B, c, sep, t) \o <<"\r", "\n">> :
             c \in TempNumbers, t \in TempNumbers, sep \in TempSeparators}
    \cup {<<"o", "k", "\r", "\n">>, <<>>}

InfoLines ==
    {<<"A", ":", "1">>, <<"A", ":", "2">>, <<" ", "B", " ", ":", " ", "2", " ">>,
     <<"C", "M", "D", ":", "1">>, <<"o", "k">>, <<"N", ":", "b", "o", "o", "k">>,
     <<"T", ":", "a", ":", "b">>, <<"x">>, <<"o", "k", ":", "1">>,
     <<"K", ":", " ", "o", "k">>}

InfoResponses ==
    {a \o <<"\r", "\n">> : a \in InfoLines}
    \cup {a \o <<"\r", "\n">> \o b \o <<"\r", "\n">> : a \in InfoLines, b \in InfoLines}

ProgressNumbers == {<<"0">>, <<"7">>, <<"1", "2">>, <<"0", "0", "7">>, <<"1", "0", "0">>}

ProgressResponses ==
    {pre \o c \o <<"/">> \o t \o post :
        pre \in {<<>>, <<"S", "D", " ">>}, c \in ProgressNumbers, t \in ProgressNumbers,
        post \in {<<>>, <<"\r", "\n">>, <<" ", "3", "/", "4">>}}
    \cup {<<>>, <<"o", "k", "\r", "\n">>, <<"1", "2">>, <<"/", "5">>, <<"1", "2", "/">>,
          <<"a", "/", "b">>, <<"1", " ", "/", "2">>,
          <<"1", "2", "3", "4", "/", "5", "6", "7", "8", "\r", "\n">>}

ParserInputs(f) ==
    CASE f = "get_temp" -> TempResponses
      [] f = "get_info" -> InfoResponses
      [] f = "get_progress" -> ProgressResponses

ParserCommand(f) ==
    CASE f = "get_temp" -> "M105" [] f = "get_info" -> "M115" [] f = "get_progress" -> "M27"

\* A protocol.py function whose call of send_and_receive has returned the text
\* `response': the connection is over, the parsing is to come.
ParserInit ==
    /\ pc = "parse"
    /\ fn \in {"get_temp", "get_info", "get_progress"}
    /\ response \in ParserInputs(fn)
    /\ command = ParserCommand(fn)
    /\ op = "send_and_receive"
    /\ filename = ""
    /\ file_content = <<>>
    /\ sock = "closed"
    /\ timeout = 10
    /\ peer = "open"
    /\ counter = 0
    /\ offset = 0
    /\ outcome = "running"
    /\ result = <<>>
    /\ exc = NoExc
    /\ wire = <<SentLine(init_command), Recvd, SentLine(formatted_command(command)), Recvd>>
    /\ oks = {"wait_init"}
    /\ connects = 1
    /\ axis_arg = <<>>
    /\ parsed = <<>>
    /\ threads = <<>>
    /\ sockets = <<>>
    /\ devices = <<>>
    /\ printer = <<>>
    /\ inflight = <<>>
    /\ origin = <<>>

ParserNext ==
    \/ get_temp
    \/ get_info
    \/ get_progress

ParserSpec == ParserInit /\ [][ParserNext]_vars

(***************************************************************************)
(* What the properties read off the state.                                 *)
(***************************************************************************)
Ended == outcome # "running"

Wrote(line) == \E i \in 1..Len(wire) : wire[i] = SentLine(line)

IsPacket(e) == e.kind = "sendall" /\ e.bytes # <<>>

\* The upload packets written so far, in the order written.
PacketsWritten == SelectSeq(wire, IsPacket)

Word(b, at) == b[at] * 16777216 + b[at + 1] * 65536 + b[at + 2] * 256 + b[at + 3]
PacketCounter(e) == Word(e.bytes, 5)
PacketCrc(e) == SubSeq(e.bytes, 13, 16)
PacketData(e) == SubSeq(e.bytes, 17, Len(e.bytes))

\* ceil(n / CHUNK_SIZE)
NumChunks(n) == (n + CHUNK_SIZE - 1) \div CHUNK_SIZE

\* The payload bytes [CHUNK_SIZE*i, min(CHUNK_SIZE*(i+1), n)), i counted from 0.
ChunkOf(i) ==
    SubSeq(file_content, CHUNK_SIZE * i + 1, Min(CHUNK_SIZE * (i + 1), Len(file_content)))

Take(s, n) == SubSeq(s, 1, n)

UploadWaits == {"wait_init", "wait_m650", "wait_m28", "wait_m29"}

(***************************************************************************)
(* C1  Whenever send_and_receive or send_file has returned or raised, on   *)
(* any exit path, the socket it opened is closed; the only ended state     *)
(* without a closed socket is upload_file's ValueError, where no socket    *)
(* was ever created.                                                       *)
(***************************************************************************)
C1_SocketClosedOnExit ==
    Ended => \/ sock = "closed"
             \/ sock = "none" /\ exc = ValueError /\ connects = 0

\* An upload that raised in the middle of the transfer, after connecting.
C1_Witness ==
    /\ op = "upload_file"
    /\ outcome = "raised"
    /\ exc = wrap(TimeoutError)
    /\ Wrote(m650_cmd)
    /\ sock = "closed"

(***************************************************************************)
(* C2  The first line written is the handshake, and the target command     *)
(* line is written only in a run in which b'ok' was received in reply to   *)
(* the handshake.                                                          *)
(***************************************************************************)
C2_CommandOnlyAfterHandshakeOk ==
    /\ wire # <<>> => wire[1] = SentLine(init_command)
    /\ (op = "send_and_receive" /\ Wrote(formatted_command(command)))
          => "wait_init" \in oks

(***************************************************************************)
(* C3  A command operation whose peer closed the connection during the     *)
(* handshake, before any b'ok', never returns a result.                    *)
(***************************************************************************)
C3_ClosedHandshakeIsAnError ==
    (op = "send_and_receive" /\ peer = "closed" /\ "wait_init" \notin oks)
        => outcome # "returned"

(***************************************************************************)
(* C4  Against a device that never sends b'ok' in reply to the handshake   *)
(* and does not close the connection (it is silent, or keeps sending other *)
(* bytes), every command operation eventually ends raising, its socket     *)
(* closed.                                                                 *)
(***************************************************************************)
C4_NoOkEventuallyRaises ==
    <>(\/ "wait_init" \in oks
       \/ peer = "closed"
       \/ outcome = "raised" /\ sock = "closed")

(***************************************************************************)
(* C5  An upload that returns the success summary has written exactly the  *)
(* handshake, M650, M28 with the payload's length and the file's path, one *)
(* packet per chunk in increasing offset order, then M29; each text line   *)
(* once and followed by a read, and no read between the M28 wait and M29.  *)
(***************************************************************************)
C5_UploadWriteOrder ==
    (op = "upload_file" /\ outcome = "returned") =>
        LET k == NumChunks(Len(file_content)) IN
        /\ Len(wire) = 8 + k
        /\ SubSeq(wire, 1, 6) =
              <<SentLine("~M601 S1\r\n"), Recvd,
                SentLine("~M650\r\n"), Recvd,
                SentLine("~M28 " \o ToString(Len(file_content)) \o " 0:/user/"
                             \o filename \o "\r\n"), Recvd>>
        /\ \A i \in 1..k :
              /\ IsPacket(wire[6 + i])
              /\ Take(PacketData(wire[6 + i]), Len(ChunkOf(i - 1))) = ChunkOf(i - 1)
        /\ SubSeq(wire, 7 + k, 8 + k) = <<SentLine("~M29\r\n"), Recvd>>

\* A returned upload of several chunks, the last one short.
C5_Witness ==
    /\ op = "upload_file"
    /\ outcome = "returned"
    /\ result = upload_summary(filename)
    /\ Len(PacketsWritten) >= 2
    /\ Len(file_content) % CHUNK_SIZE # 0

(***************************************************************************)
(* C6  An upload returns the success summary only when b'ok' was seen in   *)
(* each of its four waits: an error, timeout or closure at any step makes  *)
(* it raise.                                                               *)
(***************************************************************************)
C6_SuccessOnlyAfterFourOks ==
    (op = "upload_file" /\ outcome = "returned") => UploadWaits \subseteq oks

(***************************************************************************)
(* C7  upload_file with a filename of more than 36 characters raises       *)
(* ValueError with no socket created and no connect attempted; with 36 or  *)
(* fewer it raises no ValueError and goes on to create the socket and      *)
(* connect.                                                                *)
(***************************************************************************)
C7_FilenameLimit ==
    op = "upload_file" =>
        IF Len(filename) > 36
          THEN /\ outcome = "raised" /\ exc = ValueError
               /\ sock = "none" /\ connects = 0 /\ wire = <<>>
          ELSE /\ exc # ValueError
               /\ sock # "none"
               /\ pc = "connect" \/ connects = 1

\* A filename of exactly 36 characters, connected.
C7_Witness ==
    /\ op = "upload_file"
    /\ Len(filename) = 36
    /\ connects = 1
    /\ sock = "connected"

(***************************************************************************)
(* C8  The packets written carry the sequence numbers 0, 1, 2, ... in the  *)
(* order written, the i-th carrying the payload bytes                      *)
(* [CHUNK_SIZE*i, min(CHUNK_SIZE*(i+1), n)); once the stream is over (M29  *)
(* is written) there are exactly ceil(n / CHUNK_SIZE) of them.             *)
(***************************************************************************)
C8_PacketSequence ==
    op = "upload_file" =>
        LET pk == PacketsWritten
            k == NumChunks(Len(file_content)) IN
        /\ Len(pk) <= k
        /\ Wrote(m29_cmd) => Len(pk) = k
        /\ \A i \in 1..Len(pk) :
              /\ PacketCounter(pk[i]) = i - 1
              /\ Take(PacketData(pk[i]), Len(ChunkOf(i - 1))) = ChunkOf(i - 1)

\* A finished stream of at least three packets.
C8_Witness ==
    /\ Wrote(m29_cmd)
    /\ Len(PacketsWritten) >= 3
    /\ PacketCounter(PacketsWritten[3]) = 2

(***************************************************************************)
(* C9  Once the stream is over, the data blocks of the packets, each cut   *)
(* to its chunk's real length (CHUNK_SIZE for all but the last,            *)
(* n - CHUNK_SIZE*(k-1) for the last) and concatenated in sequence order,  *)
(* are the payload.                                                        *)
(***************************************************************************)
RealLength(i, k, n) == IF i < k THEN CHUNK_SIZE ELSE n - CHUNK_SIZE * (k - 1)

RECURSIVE Reassemble(_, _, _)
Reassemble(pk, i, n) ==
    IF i > Len(pk) THEN <<>>
    ELSE Take(PacketData(pk[i]), RealLength(i, Len(pk), n)) \o Reassemble(pk, i + 1, n)

C9_RoundTrip ==
    (op = "upload_file" /\ Wrote(m29_cmd)) =>
        Reassemble(PacketsWritten, 1, Len(file_content)) = file_content

\* A finished stream whose last block carries padding after a nonzero byte.
C9_Witness ==
    /\ Wrote(m29_cmd)
    /\ Len(PacketsWritten) >= 2
    /\ Len(file_content) % CHUNK_SIZE # 0
    /\ file_content[Len(file_content)] # 0

(***************************************************************************)
(* C10  The CRC32 field of every packet is the CRC32 of its chunk's real   *)
(* payload bytes, without the zero padding.                                *)
(***************************************************************************)
C10_CrcOfUnpaddedData ==
    op = "upload_file" =>
        \A i \in 1..Len(PacketsWritten) :
            PacketCrc(PacketsWritten[i]) = crc32(ChunkOf(i - 1))

\* A packet of a short chunk: its field is not the CRC32 of the padded block.
C10_Witness ==
    \E i \in 1..Len(PacketsWritten) :
        /\ Len(ChunkOf(i - 1)) < CHUNK_SIZE
        /\ PacketCrc(PacketsWritten[i]) = crc32(ChunkOf(i - 1))
        /\ PacketCrc(PacketsWritten[i]) # crc32(PacketData(PacketsWritten[i]))

(***************************************************************************)
(* C11  For every packet, the CRC32 of its data block with the trailing    *)
(* zero bytes removed is the CRC32 of the chunk's real bytes and the       *)
(* packet's CRC32 field.  As claimed: also when the real data ends in zero *)
(* bytes.  As amended: when the real data does not end in a zero byte.     *)
(***************************************************************************)
RECURSIVE StripTrailingZeros(_)
StripTrailingZeros(d) ==
    IF d # <<>> /\ d[Len(d)] = 0 THEN StripTrailingZeros(SubSeq(d, 1, Len(d) - 1)) ELSE d

EndsInZero(d) == d # <<>> /\ d[Len(d)] = 0

C11_StrippedCrc_AsClaimed ==
    op = "upload_file" =>
        \A i \in 1..Len(PacketsWritten) :
            /\ crc32(StripTrailingZeros(PacketData(PacketsWritten[i]))) = crc32(ChunkOf(i - 1))
            /\ crc32(StripTrailingZeros(PacketData(PacketsWritten[i])))
                  = PacketCrc(PacketsWritten[i])

C11_StrippedCrc ==
    op = "upload_file" =>
        \A i \in 1..Len(PacketsWritten) :
            ~EndsInZero(ChunkOf(i - 1)) =>
                /\ crc32(StripTrailingZeros(PacketData(PacketsWritten[i])))
                      = crc32(ChunkOf(i - 1))
                /\ crc32(StripTrailingZeros(PacketData(PacketsWritten[i])))
                      = PacketCrc(PacketsWritten[i])

\* A padded packet of a short chunk that ends in a nonzero byte.
C11_Witness ==
    \E i \in 1..Len(PacketsWritten) :
        /\ Len(ChunkOf(i - 1)) < CHUNK_SIZE
        /\ ~EndsInZero(ChunkOf(i - 1))
        /\ StripTrailingZeros(PacketData(PacketsWritten[i])) = ChunkOf(i - 1)

(***************************************************************************)
(* C12  After the target command is written the operation reads on only    *)
(* while the accumulated bytes hold neither b'ok\r\n' nor b'ok\n'; it      *)
(* returns exactly the accumulated bytes, and returns only when they hold  *)
(* a terminator or the peer has closed the connection.                     *)
(***************************************************************************)
HasOkLine(r) ==
    \E i \in 1..Len(r) - 1 :
        /\ r[i] = "o" /\ r[i + 1] = "k"
        /\ \/ i + 2 <= Len(r) /\ r[i + 2] = "\n"
           \/ i + 3 <= Len(r) /\ r[i + 2] = "\r" /\ r[i + 3] = "\n"

C12_ReadUntilTerminator ==
    op = "send_and_receive" =>
        /\ pc = "wait_command" => ~HasOkLine(response)
        /\ outcome = "returned" =>
              /\ result = response
              /\ HasOkLine(response) \/ peer = "closed"
              /\ ~HasOkLine(SubSeq(response, 1, Len(response) - BUFFER_SIZE))

\* A returned reply whose b'ok\n' is longer than one read can carry (BUFFER_SIZE
\* bytes), so that the terminator arrived split across reads.
C12_Witness ==
    /\ op = "send_and_receive"
    /\ outcome = "returned"
    /\ peer = "open"
    /\ result = <<"x", "o", "k", "\n">>
    /\ BUFFER_SIZE < Len(OK_LF)

(***************************************************************************)
(* C13  A command operation connects at most once, writes the handshake    *)
(* line and then the command line at most once each (both exactly once     *)
(* when it returns), with reads between and after them, and takes no step  *)
(* after it has returned or raised.                                        *)
(***************************************************************************)
IsPrefix(a, b) == Len(a) <= Len(b) /\ a = SubSeq(b, 1, Len(a))

CommandWire == <<SentLine("~M601 S1\r\n"), Recvd, SentLine("~" \o command \o "\r\n"), Recvd>>

C13_OnceNoRetry ==
    /\ [](op = "send_and_receive" =>
            /\ connects <= 1
            /\ IsPrefix(wire, CommandWire)
            /\ outcome = "returned" => wire = CommandWire /\ connects = 1)
    /\ [][(op = "send_and_receive" /\ Ended) => UNCHANGED vars]_vars

\* A command operation that raised after writing the handshake.
C13_Witness ==
    /\ op = "send_and_receive"
    /\ outcome = "raised"
    /\ connects = 1
    /\ wire = SubSeq(CommandWire, 1, 2)

(***************************************************************************)
(* C14  A command operation in which connect or recv timed out has raised  *)
(* socket.timeout with the socket closed and has returned nothing, also    *)
(* when part of the reply had been accumulated; it returns only on a       *)
(* terminator or on closure by the peer.                                   *)
(***************************************************************************)
C14_TimeoutRaises ==
    op = "send_and_receive" =>
        /\ exc = TimeoutError =>
              outcome = "raised" /\ sock = "closed" /\ result = <<>> /\ pc = "done"
        /\ outcome = "returned" => exc = NoExc /\ (HasOkLine(response) \/ peer = "closed")

\* A timeout after part of the command's reply was accumulated.
C14_Witness ==
    /\ op = "send_and_receive"
    /\ exc = TimeoutError
    /\ Wrote(formatted_command(command))
    /\ response # <<>>
    /\ sock = "closed"

(***************************************************************************)
(* C19  Every packet written is HeaderLen + CHUNK_SIZE bytes: the magic    *)
(* bytes 5A 5A A5 A5, the counter, a declared length of CHUNK_SIZE (also   *)
(* for a short chunk), the CRC32, then CHUNK_SIZE data bytes that are zero *)
(* beyond the chunk's real length; once the stream is over the packets     *)
(* total (HeaderLen + CHUNK_SIZE) * ceil(n / CHUNK_SIZE) bytes.            *)
(***************************************************************************)
HeaderLen == 16

PacketLength(e) == Word(e.bytes, 9)

RECURSIVE TotalBytes(_)
TotalBytes(pk) == IF pk = <<>> THEN 0 ELSE Len(Head(pk).bytes) + TotalBytes(Tail(pk))

C19_PacketLayout ==
    op = "upload_file" =>
        /\ \A i \in 1..Len(PacketsWritten) :
              LET b == PacketsWritten[i].bytes IN
              /\ Len(b) = HeaderLen + CHUNK_SIZE
              /\ SubSeq(b, 1, 4) = <<90, 90, 165, 165>>
              /\ PacketCounter(PacketsWritten[i]) = i - 1
              /\ PacketLength(PacketsWritten[i]) = CHUNK_SIZE
              /\ \A j \in (HeaderLen + Len(ChunkOf(i - 1)) + 1)..Len(b) : b[j] = 0
        /\ Wrote(m29_cmd) =>
              TotalBytes(PacketsWritten)
                 = (HeaderLen + CHUNK_SIZE) * NumChunks(Len(file_content))

\* A finished stream whose last packet is of a short chunk.
C19_Witness ==
    /\ Wrote(m29_cmd)
    /\ Len(PacketsWritten) >= 2
    /\ Len(file_content) % CHUNK_SIZE # 0
    /\ PacketLength(PacketsWritten[Len(PacketsWritten)]) = CHUNK_SIZE

(***************************************************************************)
(* C18  home_printer sends G28 with no axis token when the axis is `all'   *)
(* in any letter case or is omitted, and G28 followed by the axis in upper *)
(* case for any other axis.                                                *)
(***************************************************************************)
ExpectedHomeCommand ==
    CASE axis_arg = NoArg -> "G28"
      [] axis_arg = <<"a", "l", "l">> -> "G28"
      [] axis_arg = <<"A", "L", "L">> -> "G28"
      [] axis_arg = <<"a", "L", "l">> -> "G28"
      [] axis_arg = <<"x">> -> "G28 X"
      [] axis_arg = <<"X">> -> "G28 X"
      [] axis_arg = <<"z">> -> "G28 Z"

C18_HomeCommand ==
    fn = "home_printer" =>
        /\ command = ExpectedHomeCommand
        /\ Len(wire) >= 3 => wire[3] = SentLine("~" \o ExpectedHomeCommand \o "\r\n")
        /\ outcome = "returned" => Len(wire) >= 3

\* `all' in mixed case, the command written.
C18_Witness ==
    /\ fn = "home_printer"
    /\ axis_arg = <<"a", "L", "l">>
    /\ Wrote("~G28\r\n")
    /\ outcome = "returned"

(***************************************************************************)
(* C15  For a reply T0:<c>/<t> B:<bc>/<bt>, each number plain, negative or *)
(* decimal, get_temp returns exactly the four fields c, t, bc and bt; the  *)
(* fields of a group that the reply lacks are absent.                      *)
(***************************************************************************)
C15_TempFourFields ==
    (fn = "get_temp" /\ pc = "done") =>
        /\ \A c \in TempNumbers, t \in TempNumbers, bc \in TempNumbers, bt \in TempNumbers :
              response = T0 \o c \o <<"/">> \o t \o <<" ">> \o B \o bc \o <<"/">> \o bt
                            \o <<"\r", "\n">>
                 => parsed = [current_temperature |-> c, target_temperature |-> t,
                              bed_current_temperature |-> bc, bed_target_temperature |-> bt]
        /\ ~Contains(response, T0) =>
              DOMAIN parsed \cap {"current_temperature", "target_temperature"} = {}
        /\ ~Contains(response, B) =>
              DOMAIN parsed \cap {"bed_current_temperature", "bed_target_temperature"} = {}

(***************************************************************************)
(* C16  get_info returns one field per line that has a colon, has no       *)
(* `CMD' in it and has no standalone token `ok' (an `ok' inside a longer   *)
(* word does not count): the line split on its first colon, key and value  *)
(* trimmed, the last line of a key winning.                                *)
(***************************************************************************)
TokenSeparators == Whitespace \cup {":"}

HasOkToken(line) ==
    \E i \in 1..Len(line) - 1 :
        /\ line[i] = "o" /\ line[i + 1] = "k"
        /\ i = 1 \/ line[i - 1] \in TokenSeparators
        /\ i + 1 = Len(line) \/ line[i + 2] \in TokenSeparators

ClaimedInfo(t) ==
    LET lines == split(t, "\n")
        Q == {i \in 1..Len(lines) :
                 /\ \E j \in 1..Len(lines[i]) : lines[i][j] = ":"
                 /\ ~Contains(lines[i], <<"C", "M", "D">>)
                 /\ ~HasOkToken(lines[i])}
        Colon(i) == MinOf({j \in 1..Len(lines[i]) : lines[i][j] = ":"})
        Key(i) == strip(SubSeq(lines[i], 1, Colon(i) - 1))
        Val(i) == strip(SubSeq(lines[i], Colon(i) + 1, Len(lines[i])))
    IN  [k \in {Key(i) : i \in Q} |->
            Val(CHOOSE i \in Q : Key(i) = k /\ \A j \in Q : Key(j) = k => j <= i)]

C16_InfoFields ==
    (fn = "get_info" /\ pc = "done") => parsed = ClaimedInfo(response)

\* The slashes with a digit on either side.
PairSlashes(t) ==
    {p \in 2..Len(t) - 1 : t[p] = "/" /\ t[p - 1] \in Digits /\ t[p + 1] \in Digits}

RECURSIVE DigitsBefore(_, _)
DigitsBefore(t, i) ==
    IF i >= 1 /\ t[i] \in Digits THEN DigitsBefore(t, i - 1) \o <<t[i]>> ELSE <<>>

RECURSIVE DigitsFrom(_, _)
DigitsFrom(t, i) ==
    IF i <= Len(t) /\ t[i] \in Digits THEN <<t[i]>> \o DigitsFrom(t, i + 1) ELSE <<>>

Abs(n) == IF n < 0 THEN -n ELSE n

\* What get_progress owes for a reply: both counters of the first pair, the
\* percentage (in hundredths, within half a hundredth of 100 c / t) exactly
\* when t > 0, nothing for a reply with no pair, and no error.
ProgressAsSpecified ==
    /\ outcome = "returned" /\ exc = NoExc
    /\ IF PairSlashes(response) = {}
         THEN parsed = EmptyDict
         ELSE LET p == MinOf(PairSlashes(response))
                  c == int(DigitsBefore(response, p - 1))
                  t == int(DigitsFrom(response, p + 1))
              IN  /\ {"current_byte", "total_bytes"} \subseteq DOMAIN parsed
                  /\ DOMAIN parsed \subseteq {"current_byte", "total_bytes", "percentage"}
                  /\ parsed["current_byte"] = c
                  /\ parsed["total_bytes"] = t
                  /\ "percentage" \in DOMAIN parsed <=> t > 0
                  /\ t > 0 => 2 * Abs(10000 * c - parsed["percentage"] * t) <= t

ProgressExample == <<"1", "2", "3", "4", "/", "5", "6", "7", "8", "\r", "\n">>

Threads == {1, 2}

\* printer_address: each thread is given a device of its own.
printer_address(p) == p

\* A socket not yet connected has no peer.
NoPeer == 0
NoSocket == 0

ThreadOps == {"send_and_receive", "send_file"}
ThreadCommand(p) == IF p = 1 THEN "M115" ELSE "M27"
ThreadFilename == "a.gx"
ThreadFileContent == <<1, 0, 1>>

\* What a recv() call finds: bytes, b'' from a peer that closed, an error
\* from a connection that was reset, or nothing until the timeout expires.
Data(b) == [kind |-> "data", bytes |-> b]
PeerClosed == Data(<<>>)
PeerReset == [kind |-> "error", bytes |-> <<>>]
TimedOut == [kind |-> "timeout", bytes |-> <<>>]

ReplyEvents == {Data(OK), Data(<<"\n">>), PeerClosed, PeerReset}

\* The answers of a device: up to three b'ok', then at most one more event;
\* and two that start with a line end before the b'ok'.
Oks(k) == [i \in 1..k |-> Data(OK)]
DeviceScripts ==
    {Oks(k) \o s : k \in 0..3, s \in SeqsUpTo(ReplyEvents, 1)}
        \cup {<<Data(<<"\n">>)>> \o Oks(2) \o <<Data(<<"\n">>)>>,
              <<Data(<<"\n">>)>> \o Oks(1) \o <<Data(<<"\n">>), Data(OK), Data(<<"\n">>)>>}

\* A device is a printer that accepts the connection and then sends its
\* script, read by read, and goes silent; or one that refuses to connect.
Devices ==
    {[connect |-> "ok", script |-> s, replies |-> s] : s \in DeviceScripts}
        \cup {[connect |-> "refused", script |-> <<>>, replies |-> <<>>]}

Frame(o, c) ==
    [pc |-> "idle", op |-> o, command |-> c, printer_socket |-> NoSocket,
     response |-> <<>>, counter |-> 0, offset |-> 0, outcome |-> "running",
     result |-> "", exc |-> NoExc]

ConcInit ==
    /\ pc = "idle"
    /\ op = "none"
    /\ command = ""
    /\ filename = ""
    /\ file_content = <<>>
    /\ sock = "none"
    /\ timeout = 0
    /\ peer = "open"
    /\ response = <<>>
    /\ counter = 0
    /\ offset = 0
    /\ outcome = "running"
    /\ result = <<>>
    /\ exc = NoExc
    /\ wire = <<>>
    /\ oks = {}
    /\ connects = 0
    /\ fn = ""
    /\ axis_arg = <<>>
    /\ parsed = <<>>
    /\ threads \in {[p \in Threads |-> Frame(o[p], IF o[p] = "send_file" THEN "" ELSE ThreadCommand(p))] :
                       o \in [Threads -> ThreadOps]}
    /\ sockets = <<>>
    /\ devices \in [{printer_address(p) : p \in Threads} -> Devices]
    /\ printer = <<>>
    /\ inflight = <<>>
    /\ origin = <<>>

SeqUnchanged ==
    UNCHANGED <<pc, op, command, filename, file_content, sock, timeout, peer, response,
                counter, offset, outcome, result, exc, wire, oks, connects, fn, axis_arg,
                parsed, printer, inflight, origin>>

\* One module-level socket, used by every call.
socket_shared(socks) == 1

\* socket.socket(...): a new socket object at every call.
socket_socket(socks) == Cardinality(DOMAIN socks) + 1

\* printer_socket.close(), reached through `finally'.
socket_close(socks, fd) == [socks EXCEPT ![fd].open = FALSE]

\* The call `what' made on socket fd by thread p.
socket_call(socks, fd, p, what) ==
    [socks EXCEPT ![fd].log = Append(@, [by |-> p, what |-> what])]

\* An exception leaves the operation (send_file wraps it).
thread_raise(f, e) ==
    [f EXCEPT !.outcome = "raised",
              !.exc = IF f.op = "send_file" THEN wrap(e) ELSE e,
              !.pc = "done"]

thread_return(f, v) == [f EXCEPT !.outcome = "returned", !.result = v, !.pc = "done"]

\* printer_socket = socket.socket(...); printer_socket.settimeout(...)
thread_call(p) ==
    /\ threads[p].pc = "idle"
    /\ LET fd == socket_socket(sockets) IN
          /\ sockets' = (fd :> [owner |-> p, peer |-> NoPeer, open |-> TRUE, log |-> <<>>])
                            @@ sockets
          /\ threads' = [threads EXCEPT ![p].printer_socket = fd, ![p].pc = "connect"]
    /\ UNCHANGED devices
    /\ SeqUnchanged

\* printer_socket.connect((printer_address['ip'], printer_address['port']))
thread_connect(p) ==
    /\ threads[p].pc = "connect"
    /\ LET f == threads[p]
           fd == f.printer_socket
           a == printer_address(p)
       IN  IF devices[a].connect = "ok"
             THEN /\ sockets' = [sockets EXCEPT ![fd].peer = a]
                  /\ threads' = [threads EXCEPT ![p].pc = "send_init"]
             ELSE /\ sockets' = socket_close(sockets, fd)
                  /\ threads' = [threads EXCEPT ![p] = thread_raise(f, ConnectionError)]
    /\ UNCHANGED devices
    /\ SeqUnchanged

thread_file_size == Len(ThreadFileContent)

\* The line each sendall(<line>.encode()) sends, and the wait that follows it.
thread_line(f) ==
    CASE f.pc = "send_init" -> init_command
      [] f.pc = "send_command" -> formatted_command(f.command)
      [] f.pc = "send_m650" -> m650_cmd
      [] f.pc = "send_m28" -> m28_cmd(thread_file_size, ThreadFilename)
      [] f.pc = "stream" -> m29_cmd

thread_after_line(f) ==
    CASE f.pc = "send_init" -> "wait_init"
      [] f.pc = "send_command" -> "wait_command"
      [] f.pc = "send_m650" -> "wait_m650"
      [] f.pc = "send_m28" -> "wait_m28"
      [] f.pc = "stream" -> "wait_m29"

\* printer_socket.sendall(<line>.encode()); response = b''
thread_sendall(p) ==
    LET f == threads[p] IN
    /\ \/ f.pc \in {"send_init", "send_command", "send_m650", "send_m28"}
       \/ f.pc = "stream" /\ f.offset >= thread_file_size
    /\ sockets' = socket_call(sockets, f.printer_socket, p, SentLine(thread_line(f)))
    /\ threads' = [threads EXCEPT ![p].pc = thread_after_line(f), ![p].response = <<>>]
    /\ UNCHANGED devices
    /\ SeqUnchanged

\* One pass of `while offset < file_size'.
thread_packet(f) ==
    LET data == Slice(ThreadFileContent, f.offset, Min(f.offset + CHUNK_SIZE, thread_file_size))
    IN  pack(f.counter, CHUNK_SIZE, crc32(data)) \o data \o Zeros(CHUNK_SIZE - Len(data))

thread_send_packet(p) ==
    LET f == threads[p] IN
    /\ f.pc = "stream"
    /\ f.offset < thread_file_size
    /\ sockets' = socket_call(sockets, f.printer_socket, p, SentPacket(thread_packet(f)))
    /\ threads' = [threads EXCEPT ![p].offset = Min(f.offset + CHUNK_SIZE, thread_file_size),
                                  ![p].counter = f.counter + 1]
    /\ UNCHANGED devices
    /\ SeqUnchanged

\* printer_socket.recv(BUFFER_SIZE): what the socket's peer has next.
socket_recv(socks, devs, fd) ==
    LET a == socks[fd].peer IN
    IF a = NoPeer \/ ~socks[fd].open THEN PeerReset
    ELSE IF devs[a].replies = <<>> THEN TimedOut
    ELSE Head(devs[a].replies)

\* Bytes that were read are gone from the connection.
socket_recvd(socks, devs, fd) ==
    LET a == socks[fd].peer
        e == socket_recv(socks, devs, fd)
    IN  IF e.kind = "data" /\ e.bytes # <<>>
          THEN [devs EXCEPT ![a].replies = Tail(@)]
          ELSE devs

\* What follows each loop `while b'ok' not in response'.
thread_after_wait(f) ==
    CASE f.pc = "wait_init" ->
            [f EXCEPT !.pc = IF f.op = "send_file" THEN "send_m650" ELSE "send_command"]
      [] f.pc = "wait_m650" -> [f EXCEPT !.pc = "send_m28"]
      [] f.pc = "wait_m28" -> [f EXCEPT !.pc = "stream", !.counter = 0, !.offset = 0]
      [] f.pc = "wait_m29" -> thread_return(f, upload_summary(ThreadFilename))

thread_error(e) == IF e.kind = "timeout" THEN TimeoutError ELSE ConnectionError

\* The frame after one recv() of a loop whose exit test is `over'.
thread_recv(f, e, over, exit) ==
    CASE e.kind # "data" -> thread_raise(f, thread_error(e))
      [] e.kind = "data" /\ e.bytes = <<>> -> exit
      [] e.kind = "data" /\ e.bytes # <<>> /\ over -> exit
      [] OTHER -> [f EXCEPT !.response = f.response \o e.bytes]

\* The socket after that recv(): closed when the operation is over.
socket_after(socks, fd, p, f) ==
    LET s == socket_call(socks, fd, p, Recvd)
    IN  IF f.pc = "done" THEN socket_close(s, fd) ELSE s

\* One pass of a loop `while b'ok' not in response'.
thread_wait_ok(p) ==
    LET f == threads[p]
        fd == f.printer_socket
        e == socket_recv(sockets, devices, fd)
        g == thread_recv(f, e, Contains(f.response \o e.bytes, OK), thread_after_wait(f))
    IN  /\ f.pc \in {"wait_init", "wait_m650", "wait_m28", "wait_m29"}
        /\ threads' = [threads EXCEPT ![p] = g]
        /\ devices' = socket_recvd(sockets, devices, fd)
        /\ sockets' = socket_after(sockets, fd, p, g)
        /\ SeqUnchanged

\* One pass of send_and_receive's loop `while True'.
thread_wait_command(p) ==
    LET f == threads[p]
        fd == f.printer_socket
        e == socket_recv(sockets, devices, fd)
        r == f.response \o e.bytes
        g == thread_recv(f, e, has_terminator(r),
                         thread_return([f EXCEPT !.response = r], Str(decode(r))))
    IN  /\ f.pc = "wait_command"
        /\ threads' = [threads EXCEPT ![p] = g]
        /\ devices' = socket_recvd(sockets, devices, fd)
        /\ sockets' = socket_after(sockets, fd, p, g)
        /\ SeqUnchanged

ConcNext ==
    \E p \in Threads :
        \/ thread_call(p)
        \/ thread_connect(p)
        \/ thread_sendall(p)
        \/ thread_send_packet(p)
        \/ thread_wait_ok(p)
        \/ thread_wait_command(p)

ConcSpec == ConcInit /\ [][ConcNext]_vars

(***************************************************************************)
(* The same operation run alone against its device, as a function of the   *)
(* device's script.                                                        *)
(***************************************************************************)
\* A read loop run to its end: how it ended, the response it gathered and
\* what the device has left to send.
RECURSIVE alone_wait(_, _, _)
alone_wait(replies, r, loop) ==
    IF replies = <<>> THEN [how |-> "timeout", response |-> r, rest |-> replies]
    ELSE LET e == Head(replies)
             r2 == r \o e.bytes
         IN  IF e.kind = "error" THEN [how |-> "error", response |-> r, rest |-> replies]
             ELSE IF e.bytes = <<>> THEN [how |-> "closed", response |-> r, rest |-> replies]
             ELSE IF (loop = "command" /\ has_terminator(r2)) \/ (loop = "ok" /\ Contains(r2, OK))
               THEN [how |-> "done", response |-> r2, rest |-> Tail(replies)]
             ELSE alone_wait(Tail(replies), r2, loop)

Failed(w) == w.how \in {"timeout", "error"}
ErrorOf(w) == IF w.how = "timeout" THEN TimeoutError ELSE ConnectionError

Raises(e) == [outcome |-> "raised", result |-> "", exc |-> e]
Returns(v) == [outcome |-> "returned", result |-> v, exc |-> NoExc]

alone_send_and_receive(dev) ==
    IF dev.connect # "ok" THEN Raises(ConnectionError)
    ELSE LET h == alone_wait(dev.script, <<>>, "ok") IN
         IF Failed(h) THEN Raises(ErrorOf(h))
         ELSE LET c == alone_wait(h.rest, <<>>, "command") IN
              IF Failed(c) THEN Raises(ErrorOf(c))
              ELSE Returns(Str(c.response))

\* n loops `while b'ok' not in response' in a row.
RECURSIVE alone_waits(_, _)
alone_waits(replies, n) ==
    IF n = 0 THEN Returns(upload_summary(ThreadFilename))
    ELSE LET w == alone_wait(replies, <<>>, "ok") IN
         IF Failed(w) THEN Raises(wrap(ErrorOf(w)))
         ELSE alone_waits(w.rest, n - 1)

alone_send_file(dev) ==
    IF dev.connect # "ok" THEN Raises(wrap(ConnectionError))
    ELSE alone_waits(dev.script, 4)

Alone(o, dev) ==
    IF o = "send_file" THEN alone_send_file(dev) ELSE alone_send_and_receive(dev)

OutcomeOf(f) == [outcome |-> f.outcome, result |-> f.result, exc |-> f.exc]

(***************************************************************************)
(* C20  Two operations run at once against different devices: under every  *)
(* interleaving of their steps each makes its socket calls on the socket   *)
(* it created itself, that socket is connected to its own device, and the  *)
(* operation ends as it does when it runs alone against that device.       *)
(***************************************************************************)
C20_Independent ==
    /\ \A fd \in DOMAIN sockets :
          \A i \in 1..Len(sockets[fd].log) : sockets[fd].log[i].by = sockets[fd].owner
    /\ \A p \in Threads :
          LET f == threads[p] IN
          /\ f.printer_socket # NoSocket =>
                /\ sockets[f.printer_socket].owner = p
                /\ sockets[f.printer_socket].peer \in {NoPeer, printer_address(p)}
          /\ f.pc = "done" =>
                /\ OutcomeOf(f) = Alone(f.op, devices[printer_address(p)])
                /\ ~sockets[f.printer_socket].open

\* Thread 1's command has returned its reply while thread 2 is in the middle
\* of an upload, one packet sent, each on a connected socket of its own.
C20_Witness ==
    /\ DOMAIN threads = Threads
    /\ threads[1].op = "send_and_receive"
    /\ threads[1].outcome = "returned"
    /\ threads[1].result = "ok\n"
    /\ threads[2].op = "send_file"
    /\ threads[2].pc = "stream"
    /\ threads[2].counter = 1
    /\ threads[1].printer_socket # threads[2].printer_socket
    /\ sockets[threads[2].printer_socket].peer = printer_address(2)
    /\ Len(sockets[threads[1].printer_socket].log) = 5

(***************************************************************************)
(* One command operation with the printer's side of the connection: the    *)
(* printer answers each line it is sent with a reply of its own, the       *)
(* replies travel as one byte stream, and a recv() returns whatever part   *)
(* of the stream has arrived, at most BUFFER_SIZE bytes of it.             *)
(***************************************************************************)
\* What the printer answers to `~M601 S1' and to the command.
HandshakeReplies ==
    {<<"o", "k", "\r", "\n">>, <<"o", "k", "\n">>, <<"x", "\r", "\n", "o", "k", "\r", "\n">>}
CommandReplies ==
    {<<"x", "o", "k", "\n">>, <<"o", "k", "\r", "\n">>, <<"x", "\n", "o", "k", "\n">>}

\* The bytes of a reply, each marked with the reply it belongs to.
Tagged(b, reply) == [i \in 1..Len(b) |-> [byte |-> b[i], of |-> reply]]
Bytes(s) == [i \in 1..Len(s) |-> s[i].byte]
Tags(s) == [i \in 1..Len(s) |-> s[i].of]

\* The lines sent so far.
LinesSent(w) == Cardinality({i \in 1..Len(w) : w[i].kind = "sendall"})

StreamInit ==
    /\ pc = "idle"
    /\ op = "none"
    /\ command = ""
    /\ filename = ""
    /\ file_content = <<>>
    /\ sock = "none"
    /\ timeout = 0
    /\ peer = "open"
    /\ response = <<>>
    /\ counter = 0
    /\ offset = 0
    /\ outcome = "running"
    /\ result = <<>>
    /\ exc = NoExc
    /\ wire = <<>>
    /\ oks = {}
    /\ connects = 0
    /\ fn = ""
    /\ axis_arg = <<>>
    /\ parsed = <<>>
    /\ threads = <<>>
    /\ sockets = <<>>
    /\ devices = <<>>
    /\ printer \in {[handshake |-> h, reply |-> r, answered |-> 0] :
                       h \in HandshakeReplies, r \in CommandReplies}
    /\ inflight = <<>>
    /\ origin = <<>>

\* The printer has read a line and sends its answer: the handshake reply to
\* the first line, the command's reply to the second.
printer_replies ==
    /\ printer.answered < LinesSent(wire)
    /\ inflight' = inflight \o (IF printer.answered = 0
                                  THEN Tagged(printer.handshake, "handshake")
                                  ELSE Tagged(printer.reply, "command"))
    /\ printer' = [printer EXCEPT !.answered = @ + 1]
    /\ UNCHANGED <<pc, op, command, filename, file_content, sock, timeout, peer, response,
                   counter, offset, outcome, result, exc, wire, oks, connects, origin>>
    /\ UNCHANGED protoVars
    /\ UNCHANGED concVars

\* How many bytes a recv(BUFFER_SIZE) can return when data has arrived.
RecvLengths == 1..Min(BUFFER_SIZE, Len(inflight))

\* One pass of send_and_receive's loop `while b'ok' not in response', reading
\* the printer's stream.
stream_wait_init ==
    /\ pc = "wait_init"
    /\ op = "send_and_receive"
    /\ wire' = LogRecv(wire)
    /\ \/ \E n \in RecvLengths :
            LET chunk == Bytes(SubSeq(inflight, 1, n)) IN
            /\ inflight' = SubSeq(inflight, n + 1, Len(inflight))
            /\ response' = Tail1(response \o chunk)
            /\ IF Contains(response \o chunk, OK)
                 THEN Goto("send_command") /\ oks' = oks \cup {"wait_init"}
                 ELSE Goto("wait_init") /\ oks' = oks
       \/ /\ inflight = <<>>
          /\ Raise(TimeoutError)
          /\ UNCHANGED <<response, oks, inflight>>
    /\ UNCHANGED <<op, command, filename, file_content, timeout, peer, counter, offset,
                   connects, printer, origin>>
    /\ UNCHANGED protoVars
    /\ UNCHANGED concVars

\* One pass of send_and_receive's loop `while True', reading the printer's
\* stream, and `return response.decode(...)' when the loop ends.
stream_wait_command ==
    /\ pc = "wait_command"
    /\ wire' = LogRecv(wire)
    /\ \/ \E n \in RecvLengths :
            LET chunk == SubSeq(inflight, 1, n) IN
            /\ inflight' = SubSeq(inflight, n + 1, Len(inflight))
            /\ response' = response \o Bytes(chunk)
            /\ origin' = origin \o Tags(chunk)
            /\ IF has_terminator(response')
                 THEN Return(decode(response'))
                 ELSE Goto("wait_command")
       \/ /\ inflight = <<>>
          /\ Raise(TimeoutError)
          /\ UNCHANGED <<response, inflight, origin>>
    /\ UNCHANGED <<op, command, filename, file_content, timeout, peer, counter, offset, oks,
                   connects, printer>>
    /\ UNCHANGED protoVars
    /\ UNCHANGED concVars

StreamNext ==
    \/ send_and_receive_call
    \/ connect
    \/ send_init
    \/ send_command
    \/ printer_replies
    \/ stream_wait_init
    \/ stream_wait_command

StreamSpec == StreamInit /\ [][StreamNext]_vars

(***************************************************************************)
(* C21  The response a command operation returns is made only of bytes of  *)
(* the printer's reply to the command: no byte of the handshake reply is   *)
(* in it, whatever parts of the printer's stream the reads return.         *)
(***************************************************************************)
C21_OnlyTheCommandsReply ==
    (op = "send_and_receive" /\ outcome = "returned") =>
        /\ Len(origin) = Len(result)
        /\ \A i \in 1..Len(origin) : origin[i] = "command"

====
